---- MODULE Spec2Model ----
(***************************************************************************)
(* MarianMT translation service (src/app.py): the language normalizer, the *)
(* model registry with its lazily filled caches, and the /translate        *)
(* handler, run by a pool of worker threads that share the two caches.     *)
(*                                                                         *)
(* A Python str is a sequence of code points (<<101, 110>> is "en"), so    *)
(* that lower(), strip(), slicing and the f-string that builds a pair key  *)
(* are computed and not assumed.                                           *)
(***************************************************************************)
EXTENDS Integers, Sequences, FiniteSets, TLC

(***************************************************************************)
(* Bounds of the model.                                                    *)
(***************************************************************************)
\* load attempts (calls entering the try block of get_model_pair) explored
MaxLoads == 2
\* longest array of text units a request carries
MaxUnits == 2
\* longest generated language label handed to normalize_lang
MaxLabelLen == 3
\* longest text handed to the contains_* probes
MaxTextLen == 5

(***************************************************************************)
(* String literals of the source, as code points.                          *)
(***************************************************************************)
S_en == <<101, 110>>
S_fr == <<102, 114>>
S_ar == <<97, 114>>
S_de == <<100, 101>>
S_xx == <<120, 120>>
S_auto == <<97, 117, 116, 111>>
S_english == <<101, 110, 103, 108, 105, 115, 104>>
S_french == <<102, 114, 101, 110, 99, 104>>
S_francais == <<102, 114, 97, 110, 231, 97, 105, 115>>
S_arabic == <<97, 114, 97, 98, 105, 99>>
S_arabi == <<1593, 1585, 1576, 1610>>
S_empty == << >>

(***************************************************************************)
(* str.lower() and str.strip() on the code points the model uses: ASCII    *)
(* and Latin-1 capitals fold to their small letters, the Arabic block has  *)
(* no case; strip() removes the characters str.isspace() accepts.          *)
(***************************************************************************)
LowerChar(c) ==
    IF (c >= 65 /\ c <= 90) \/ (c >= 192 /\ c <= 222 /\ c # 215) THEN c + 32 ELSE c

Lower(s) == [i \in 1..Len(s) |-> LowerChar(s[i])]

IsSpace(c) == c \in {9, 10, 11, 12, 13, 28, 29, 30, 31, 32, 133, 160}

RECURSIVE LStrip(_)
LStrip(s) == IF s # << >> /\ IsSpace(Head(s)) THEN LStrip(Tail(s)) ELSE s

RECURSIVE RStrip(_)
RStrip(s) ==
    IF s # << >> /\ IsSpace(s[Len(s)]) THEN RStrip(SubSeq(s, 1, Len(s) - 1)) ELSE s

Strip(s) == RStrip(LStrip(s))

\* lang[:2]
Prefix2(s) == SubSeq(s, 1, IF Len(s) < 2 THEN Len(s) ELSE 2)

(***************************************************************************)
(* normalize_lang, lines 165-176.                                          *)
(***************************************************************************)
lang_map_keys == {S_english, S_french, S_francais, S_arabic, S_arabi}

lang_map(l) ==
    CASE l = S_english -> S_en
      [] l = S_french -> S_fr
      [] l = S_francais -> S_fr
      [] l = S_arabic -> S_ar
      [] l = S_arabi -> S_ar

\* the label trimmed but not lowered
NormalizeWithoutLower(lang) ==
    LET l == Strip(lang)
    IN  IF l \in lang_map_keys THEN lang_map(l)
        ELSE IF Len(l) >= 2 THEN Prefix2(l) ELSE S_en

normalize_lang(lang) ==
    LET l == Strip(Lower(lang))
    IN  IF l \in lang_map_keys THEN lang_map(l)
        ELSE IF Len(l) >= 2 THEN Prefix2(l) ELSE S_en

(***************************************************************************)
(* The script probes, lines 144-163.                                       *)
(***************************************************************************)
\* lines 146-148: a character of the Arabic block U+0600..U+06FF
contains_arabic(text) == \E i \in 1..Len(text) : text[i] >= 1536 /\ text[i] <= 1791

\* line 153: the characters of the literal, e-acute to i-diaeresis
french_chars == {233, 232, 234, 235, 224, 226, 231, 249, 251, 252, 244, 246, 238, 239}

\* line 154: any(char in text.lower() for char in french_chars)
contains_french(text) ==
    \E char \in french_chars : \E i \in 1..Len(text) : Lower(text)[i] = char

\* str.isprintable() on the code points the model uses: the controls, DEL,
\* the no-break space and the soft hyphen are not printable
IsPrintable(c) == (c >= 32 /\ c <= 126) \/ (c >= 161 /\ c # 173)

\* line 162
ascii_count(text) == Cardinality({i \in 1..Len(text) : text[i] < 128 /\ IsPrintable(text[i])})

\* the threshold test made non-strict
ContainsEnglishAtLeast(text) ==
    IF contains_arabic(text) \/ contains_french(text) THEN FALSE
    ELSE 10 * ascii_count(text) >= 8 * Len(text)

\* lines 158-163.  ascii_count > len(text) * 0.8 compares an int with a
\* float; for the lengths of the model the product is exact whenever it is
\* a whole number (5 * 0.8 == 4.0), so the test is 10 * count > 8 * len
contains_english(text) ==
    IF contains_arabic(text) \/ contains_french(text) THEN FALSE
    ELSE 10 * ascii_count(text) > 8 * Len(text)

(***************************************************************************)
(* MODEL_MAP, lines 33-40: an insertion-ordered dict, kept as the sequence *)
(* of its (key, model name) items.                                         *)
(***************************************************************************)
\* f"{source_lang}-{target_lang}", lines 48 and 101
PairKey(source_lang, target_lang) == source_lang \o <<45>> \o target_lang

\* the registry without its "en-ar" item
ModelMapWithoutEnAr ==
    << <<PairKey(S_en, S_fr), "Helsinki-NLP/opus-mt-en-fr">>,
       <<PairKey(S_fr, S_en), "Helsinki-NLP/opus-mt-fr-en">>,
       <<PairKey(S_ar, S_en), "Helsinki-NLP/opus-mt-ar-en">>,
       <<PairKey(S_fr, S_ar), "Helsinki-NLP/opus-mt-fr-ar">>,
       <<PairKey(S_ar, S_fr), "Helsinki-NLP/opus-mt-ar-fr">> >>

MODEL_MAP ==
    << <<PairKey(S_en, S_fr), "Helsinki-NLP/opus-mt-en-fr">>,
       <<PairKey(S_fr, S_en), "Helsinki-NLP/opus-mt-fr-en">>,
       <<PairKey(S_en, S_ar), "Helsinki-NLP/opus-mt-en-ar">>,
       <<PairKey(S_ar, S_en), "Helsinki-NLP/opus-mt-ar-en">>,
       <<PairKey(S_fr, S_ar), "Helsinki-NLP/opus-mt-fr-ar">>,
       <<PairKey(S_ar, S_fr), "Helsinki-NLP/opus-mt-ar-fr">> >>

\* list(MODEL_MAP.keys())
MapKeys == [i \in 1..Len(MODEL_MAP) |-> MODEL_MAP[i][1]]

\* pair_key in MODEL_MAP
InModelMap(k) == \E i \in 1..Len(MODEL_MAP) : MODEL_MAP[i][1] = k

\* MODEL_MAP[pair_key]
ModelName(k) == MODEL_MAP[CHOOSE i \in 1..Len(MODEL_MAP) : MODEL_MAP[i][1] = k][2]

\* the set widened by a code that has no model
ValidLangsWithGerman == {S_en, S_fr, S_ar, S_de}

\* valid_langs, line 80
valid_langs == {S_en, S_fr, S_ar}

(***************************************************************************)
(* Values: texts, handles, exception messages, responses.                  *)
(***************************************************************************)
\* req.text is a str or a list of str; a str is kept as its one unit
Str(u) == [kind |-> "str", units |-> <<u>>]
List(us) == [kind |-> "list", units |-> us]
NoText == [kind |-> "none", units |-> << >>]

\* what from_pretrained returns; id names the load attempt that produced it
NoHandle == [kind |-> "none", name |-> "", id |-> 0]
TokenizerHandle(name, id) == [kind |-> "tokenizer", name |-> name, id |-> id]
ModelHandle(name, id) == [kind |-> "model", name |-> name, id |-> id]

\* str(e) of the exceptions the source builds, by its parts
NoMsg ==
    [error |-> "none", field |-> "", value |-> << >>, allowed |-> {},
     source |-> << >>, target |-> << >>, keys |-> << >>,
     model_name |-> "", pair_key |-> << >>, cause |-> ""]

\* lines 82 and 84
InvalidLangMsg(field, value) ==
    [NoMsg EXCEPT !.error = "Invalid", !.field = field, !.value = value,
                  !.allowed = valid_langs]

\* line 52
UnsupportedPairMsg(source_lang, target_lang) ==
    [NoMsg EXCEPT !.error = "Unsupported language pair", !.source = source_lang,
                  !.target = target_lang, !.keys = MapKeys]

\* line 62
LoadFailedMsg(model_name, pair_key, cause) ==
    [NoMsg EXCEPT !.error = "Failed to load model", !.model_name = model_name,
                  !.pair_key = pair_key, !.cause = cause]

\* an exception of the libraries (from_pretrained, tokenizer, generate, decode)
LibraryMsg(cause) == [NoMsg EXCEPT !.error = "library", !.cause = cause]

\* tokenizers_cache[pair_key] or models_cache[pair_key] on a missing key
KeyErrorMsg(pair_key) == [NoMsg EXCEPT !.error = "KeyError", !.pair_key = pair_key]

NoExc == [type |-> "none", msg |-> NoMsg]
ValueError(msg) == [type |-> "ValueError", msg |-> msg]
KeyError(pair_key) == [type |-> "KeyError", msg |-> KeyErrorMsg(pair_key)]

\* wrapped is the "Translation failed: " prefix of line 142
NoResponse == [status |-> 0, body |-> NoText, detail |-> NoMsg, wrapped |-> FALSE]
Ok(text) == [status |-> 200, body |-> text, detail |-> NoMsg, wrapped |-> FALSE]

\* the except clauses of translate, lines 137-142
HttpError(exc) ==
    IF exc.type = "ValueError"
    THEN [status |-> 400, body |-> NoText, detail |-> exc.msg, wrapped |-> FALSE]
    ELSE [status |-> 500, body |-> NoText, detail |-> exc.msg, wrapped |-> TRUE]

(***************************************************************************)
(* Inputs.                                                                 *)
(***************************************************************************)
\* text units: "", "  ", "hi"
Units == {S_empty, <<32, 32>>, <<104, 105>>}

RECURSIVE SeqsUpTo(_, _)
SeqsUpTo(S, n) ==
    IF n = 0 THEN {<< >>}
    ELSE LET shorter == SeqsUpTo(S, n - 1)
         IN  shorter \cup {Append(q, x) : q \in {r \in shorter : Len(r) = n - 1}, x \in S}

Texts == {Str(u) : u \in Units} \cup {List(us) : us \in SeqsUpTo(Units, MaxUnits)}

\* source_lang labels of a request body: "auto", "en", " EN ", "xx"
SourceLabels == {S_auto, S_en, <<32, 69, 78, 32>>, S_xx}
\* target_lang labels: "en", "French", the Arabic-script alias, "de"
TargetLabels == {S_en, <<70, 114, 101, 110, 99, 104>>, S_arabi, S_de}

\* arguments of a direct call of get_model_pair
DirectSources == {S_en}
DirectTargets == {S_fr, S_ar, S_de}

\* decoded outputs of a model: "oui", "é", one Arabic letter
Outputs == {<<111, 117, 105>>, <<233>>, <<1587>>}
\* exceptions raised by tokenizer(), model.generate() or tokenizer.decode()
InferenceErrors ==
    {[type |-> "ValueError", msg |-> LibraryMsg("bad input")],
     [type |-> "RuntimeError", msg |-> LibraryMsg("generate failed")]}
\* exceptions raised by from_pretrained
LoadCauses == {"cannot load"}

\* arguments of a call of normalize_lang: every string over " ", "a", "E" up
\* to MaxLabelLen, and "english", " French ", "FRANÇAIS", "arabic", the
\* Arabic-script alias, "DE", "x"
LabelChars == {32, 97, 69}
Labels ==
    SeqsUpTo(LabelChars, MaxLabelLen)
        \cup {S_english, <<32, 70, 114, 101, 110, 99, 104, 32>>,
              <<70, 82, 65, 78, 199, 65, 73, 83>>, S_arabic, S_arabi,
              <<68, 69>>, <<120>>}

\* arguments of a call of a probe: every string over "a", TAB, "É", the
\* Cyrillic "ж" and an Arabic letter up to MaxTextLen
TextChars == {97, 9, 201, 1078, 1587}
ProbeTexts == SeqsUpTo(TextChars, MaxTextLen)

\* JSON bodies of POST /translate; source_lang may be left out
Bodies ==
    [text : Texts, has_source : BOOLEAN,
     source_lang : SourceLabels, target_lang : TargetLabels]

\* the bodies of the requests that run concurrently: "hi" from "en"
ConcurrentBodies ==
    {b \in Bodies : b.text = Str(<<104, 105>>) /\ b.has_source /\ b.source_lang = S_en}

Threads == {"w1", "w2"}

(***************************************************************************)
(* State.  models_cache and tokenizers_cache are the module's two dicts    *)
(* (lines 43-44), shared by every worker thread.  frame[t] is the stack    *)
(* frame of worker t: its position, the request, the locals of translate   *)
(* and get_model_pair, and what the call produced.  The other variables    *)
(* and the frame fields attempt, hit, prior, calls and logs (the warning   *)
(* and error records of lines 121-126) observe the run:                    *)
(* they are written, never read, by the operations.  probe holds the       *)
(* argument and the results of a call of one of the module's pure          *)
(* functions (normalize_lang, the contains_* probes).                      *)
(***************************************************************************)
VARIABLES models_cache, tokenizers_cache, frame, nloads, loaded, resolved, probe

vars == <<models_cache, tokenizers_cache, frame, nloads, loaded, resolved, probe>>

\* an empty dict
EmptyDict == [k \in {} |-> NoHandle]

\* d[k] = v
Put(d, k, v) == [x \in DOMAIN d \cup {k} |-> IF x = k THEN v ELSE d[x]]

NoReq == [text |-> NoText, source_lang |-> << >>, target_lang |-> << >>]

Idle ==
    [pc |-> "idle", op |-> "none", req |-> NoReq,
     source_lang |-> << >>, target_lang |-> << >>, pair_key |-> << >>,
     tokenizer |-> NoHandle, model |-> NoHandle, results |-> << >>,
     raised |-> NoExc, response |-> NoResponse,
     attempt |-> 0, hit |-> FALSE, prior |-> "none", calls |-> << >>,
     logs |-> << >>]

\* no pure function called
NoProbe ==
    [fn |-> "none", arg |-> << >>, code |-> << >>, twice |-> << >>,
     arabic |-> FALSE, french |-> FALSE, english |-> FALSE]

Init ==
    /\ probe = NoProbe
    /\ models_cache = EmptyDict
    /\ tokenizers_cache = EmptyDict
    /\ frame = [t \in Threads |-> Idle]
    /\ nloads = 0
    /\ loaded = {}
    /\ resolved = [k \in {} |-> [ok |-> FALSE, tokenizer |-> NoHandle, model |-> NoHandle]]

(***************************************************************************)
(* The request model, lines 66-69: source_lang defaults to "auto".         *)
(***************************************************************************)
TranslateRequest(text, has_source, source_lang, target_lang) ==
    [text |-> text,
     source_lang |-> IF has_source THEN source_lang ELSE S_auto,
     target_lang |-> target_lang]

(***************************************************************************)
(* translate, lines 76-95: what happens before get_model_pair is called.   *)
(***************************************************************************)
\* lines 87-88
ResolveAuto(source_lang) == IF source_lang = S_auto THEN S_en ELSE source_lang

\* the short-circuit left out
NeverIdentity(source_lang, target_lang) == FALSE

\* line 91
IsIdentityPair(source_lang, target_lang) == source_lang = target_lang

\* lines 81-84 in the other order: the target is validated first
PrepareTargetFirst(req) ==
    LET source_lang == normalize_lang(req.source_lang)
        target_lang == normalize_lang(req.target_lang)
        base == [exc |-> NoExc, early |-> FALSE,
                 source_lang |-> source_lang, target_lang |-> target_lang]
    IN  IF target_lang \notin valid_langs
        THEN [base EXCEPT !.exc = ValueError(InvalidLangMsg("target_lang", target_lang))]
        ELSE IF source_lang \notin valid_langs
        THEN [base EXCEPT !.exc = ValueError(InvalidLangMsg("source_lang", source_lang))]
        ELSE LET src == ResolveAuto(source_lang)
             IN  [base EXCEPT !.source_lang = src,
                              !.early = IsIdentityPair(src, target_lang)]

\* a text without a unit to translate answered before the pair is resolved
PrepareSkippingBlankTexts(req) ==
    LET source_lang == normalize_lang(req.source_lang)
        target_lang == normalize_lang(req.target_lang)
        base == [exc |-> NoExc, early |-> FALSE,
                 source_lang |-> source_lang, target_lang |-> target_lang]
    IN  IF source_lang \notin valid_langs
        THEN [base EXCEPT !.exc = ValueError(InvalidLangMsg("source_lang", source_lang))]
        ELSE IF target_lang \notin valid_langs
        THEN [base EXCEPT !.exc = ValueError(InvalidLangMsg("target_lang", target_lang))]
        ELSE LET src == ResolveAuto(source_lang)
             IN  [base EXCEPT !.source_lang = src,
                              !.early = \/ IsIdentityPair(src, target_lang)
                                        \/ \A i \in 1..Len(req.text.units) :
                                              Strip(req.text.units[i]) = << >>]

\* the outcome of lines 76-95: an exception, an early return, or the pair to resolve
Prepare(req) ==
    LET source_lang == normalize_lang(req.source_lang)
        target_lang == normalize_lang(req.target_lang)
        base == [exc |-> NoExc, early |-> FALSE,
                 source_lang |-> source_lang, target_lang |-> target_lang]
    IN  IF source_lang \notin valid_langs
        THEN [base EXCEPT !.exc = ValueError(InvalidLangMsg("source_lang", source_lang))]
        ELSE IF target_lang \notin valid_langs
        THEN [base EXCEPT !.exc = ValueError(InvalidLangMsg("target_lang", target_lang))]
        ELSE LET src == ResolveAuto(source_lang)
             IN  [base EXCEPT !.source_lang = src,
                              !.early = IsIdentityPair(src, target_lang)]

(***************************************************************************)
(* translate, lines 107-135: the loop over the text units and the shape of *)
(* the response.  outs[i] is what the tokenizer/generate/decode calls of   *)
(* the non-blank unit i produce, were they made: an output string or an    *)
(* exception.                                                              *)
(***************************************************************************)
\* only the first half of the test: not text
IsEmptyUnit(text) == text = << >>

\* line 111: not text or not text.strip()
IsBlankUnit(text) == text = << >> \/ Strip(text) = << >>

Decoded(s) == [type |-> "str", msg |-> NoMsg, value |-> s]
Raises(e) == [type |-> e.type, msg |-> e.msg, value |-> << >>]
Outcomes == {Decoded(s) : s \in Outputs} \cup {Raises(e) : e \in InferenceErrors}

\* the warning kept, the error record of line 124 left out
SanityEventsWithoutError(target_lang, result) ==
    IF target_lang = S_ar /\ ~contains_arabic(result) THEN <<"warning">>
    ELSE IF target_lang = S_fr /\ ~contains_french(result) /\ ~contains_english(result)
    THEN <<"warning">>
    ELSE << >>

\* lines 119-126: the levels of the records logged for one decoded result
SanityEvents(target_lang, result) ==
    IF target_lang = S_ar /\ ~contains_arabic(result)
    THEN <<"warning">> \o (IF contains_french(result) THEN <<"error">> ELSE << >>)
    ELSE IF target_lang = S_fr /\ ~contains_french(result) /\ ~contains_english(result)
    THEN <<"warning">>
    ELSE << >>

\* the records of unit i, in the order they are logged
Logged(i, levels) == [j \in 1..Len(levels) |-> <<i, levels[j]>>]

RECURSIVE RunUnits(_, _, _, _, _, _, _)
RunUnits(target_lang, texts, outs, i, results, calls, logs) ==
    IF i > Len(texts)
    THEN [exc |-> NoExc, results |-> results, calls |-> calls, logs |-> logs]
    ELSE IF IsBlankUnit(texts[i])
    THEN RunUnits(target_lang, texts, outs, i + 1, Append(results, texts[i]), calls, logs)
    ELSE IF outs[i].type # "str"
    THEN [exc |-> [type |-> outs[i].type, msg |-> outs[i].msg],
          results |-> results, calls |-> Append(calls, <<i, << >> >>), logs |-> logs]
    ELSE RunUnits(target_lang, texts, outs, i + 1, Append(results, outs[i].value),
                  Append(calls, <<i, outs[i].value>>),
                  logs \o Logged(i, SanityEvents(target_lang, outs[i].value)))

\* the isinstance test left out: always the list
ShapeAlwaysList(text, results) == List(results)

\* lines 132-135
ShapeResponse(text, results) ==
    IF text.kind = "str"
    THEN Str(IF results # << >> THEN results[1] ELSE S_empty)
    ELSE List(results)

(***************************************************************************)
(* How a call ends.  An exception inside translate's try block becomes an  *)
(* HTTP error; a direct call of get_model_pair lets it out.                *)
(***************************************************************************)
Raise(f, exc) ==
    IF f.op = "translate"
    THEN [f EXCEPT !.pc = "done", !.response = HttpError(exc)]
    ELSE [f EXCEPT !.pc = "done", !.raised = exc]

\* how far the pair of f has been resolved before, as a call sees it on entry
Prior(k) ==
    IF k \notin DOMAIN resolved THEN "none"
    ELSE IF resolved[k].ok THEN "ok" ELSE "failed"

\* the first resolution of a pair to end, replaced by the first to succeed
Record(k, ok, tokenizer, model) ==
    IF InModelMap(k) /\ (k \notin DOMAIN resolved \/ (ok /\ ~resolved[k].ok))
    THEN resolved' = Put(resolved, k, [ok |-> ok, tokenizer |-> tokenizer, model |-> model])
    ELSE UNCHANGED resolved

(***************************************************************************)
(* A worker takes a POST /translate request (lines 72-104, up to the call  *)
(* of get_model_pair).                                                     *)
(***************************************************************************)
StartTranslate(t, bodies) ==
    /\ frame[t].pc = "idle"
    /\ \E b \in bodies :
          LET req == TranslateRequest(b.text, b.has_source, b.source_lang, b.target_lang)
              p == Prepare(req)
              k == PairKey(p.source_lang, p.target_lang)
              f == [Idle EXCEPT !.op = "translate", !.req = req,
                                !.source_lang = p.source_lang,
                                !.target_lang = p.target_lang]
          IN  frame' = [frame EXCEPT ![t] =
                  IF p.exc.type # "none" THEN Raise(f, p.exc)
                  ELSE IF p.early THEN [f EXCEPT !.pc = "done", !.response = Ok(req.text)]
                  ELSE [f EXCEPT !.pc = "gmp_check", !.pair_key = k, !.prior = Prior(k)]]
    /\ UNCHANGED <<models_cache, tokenizers_cache, nloads, loaded, resolved, probe>>

(***************************************************************************)
(* A worker calls get_model_pair(source_lang, target_lang) itself, line 48.*)
(***************************************************************************)
StartResolve(t) ==
    /\ frame[t].pc = "idle"
    /\ \E source \in DirectSources, target \in DirectTargets :
          LET k == PairKey(source, target)
          IN  frame' = [frame EXCEPT ![t] =
                  [Idle EXCEPT !.op = "get_model_pair", !.pc = "gmp_check",
                               !.source_lang = source, !.target_lang = target,
                               !.pair_key = k, !.prior = Prior(k)]]
    /\ UNCHANGED <<models_cache, tokenizers_cache, nloads, loaded, resolved, probe>>

(***************************************************************************)
(* get_model_pair, lines 50-55: the cache test, the registry test, and the *)
(* entry of the try block.                                                 *)
(***************************************************************************)
\* the cache test left out: every resolution takes the load path
NeverCached(k) == FALSE

\* line 50: pair_key in models_cache
IsCached(k) == k \in DOMAIN models_cache

GmpCheck(t) ==
    LET f == frame[t]
        k == f.pair_key
    IN  /\ f.pc = "gmp_check"
        /\ IF IsCached(k)
           THEN /\ frame' = [frame EXCEPT ![t] = [f EXCEPT !.pc = "ret_tok", !.hit = TRUE]]
                /\ UNCHANGED nloads
           ELSE IF ~InModelMap(k)
           THEN /\ frame' = [frame EXCEPT ![t] =
                       Raise(f, ValueError(UnsupportedPairMsg(f.source_lang, f.target_lang)))]
                /\ UNCHANGED nloads
           ELSE /\ nloads < MaxLoads
                /\ nloads' = nloads + 1
                /\ frame' = [frame EXCEPT ![t] =
                       [f EXCEPT !.pc = "load_tok", !.attempt = nloads + 1]]
        /\ UNCHANGED <<models_cache, tokenizers_cache, loaded, resolved, probe>>

(***************************************************************************)
(* Lines 56-62: the tokenizer is loaded and stored, then the model is      *)
(* loaded and stored; either from_pretrained may raise, and the handler    *)
(* re-raises as ValueError without touching the caches.                    *)
(***************************************************************************)
\* the tokenizer written to the wrong dict
StoreTokenizerInModels(k, h) ==
    /\ models_cache' = Put(models_cache, k, h)
    /\ UNCHANGED tokenizers_cache

\* line 57
StoreTokenizer(k, h) ==
    /\ tokenizers_cache' = Put(tokenizers_cache, k, h)
    /\ UNCHANGED models_cache

\* the model stored under the target code, not under the pair key
StoreModelUnderTarget(k, h) ==
    /\ models_cache' = Put(models_cache, SubSeq(k, Len(k) - 1, Len(k)), h)
    /\ UNCHANGED tokenizers_cache

\* line 58
StoreModel(k, h) ==
    /\ models_cache' = Put(models_cache, k, h)
    /\ UNCHANGED tokenizers_cache

\* lines 60-62
LoadFailed(t, cause) ==
    LET f == frame[t]
        k == f.pair_key
    IN  /\ frame' = [frame EXCEPT ![t] =
               Raise(f, ValueError(LoadFailedMsg(ModelName(k), k, cause)))]
        /\ Record(k, FALSE, NoHandle, NoHandle)
        /\ UNCHANGED <<models_cache, tokenizers_cache, nloads, loaded, probe>>

LoadTokenizer(t) ==
    LET f == frame[t]
        k == f.pair_key
    IN  /\ f.pc = "load_tok"
        /\ \/ /\ StoreTokenizer(k, TokenizerHandle(ModelName(k), f.attempt))
              /\ frame' = [frame EXCEPT ![t] = [f EXCEPT !.pc = "load_model"]]
              /\ UNCHANGED <<nloads, loaded, resolved, probe>>
           \/ \E cause \in LoadCauses : LoadFailed(t, cause)

LoadModel(t) ==
    LET f == frame[t]
        k == f.pair_key
    IN  /\ f.pc = "load_model"
        /\ \/ /\ StoreModel(k, ModelHandle(ModelName(k), f.attempt))
              /\ loaded' = loaded \cup {ModelHandle(ModelName(k), f.attempt)}
              /\ frame' = [frame EXCEPT ![t] = [f EXCEPT !.pc = "ret_tok"]]
              /\ UNCHANGED <<nloads, resolved, probe>>
           \/ \E cause \in LoadCauses : LoadFailed(t, cause)

(***************************************************************************)
(* Line 64: the two subscripts of the return statement, in order.          *)
(***************************************************************************)
ReturnTokenizer(t) ==
    LET f == frame[t]
        k == f.pair_key
    IN  /\ f.pc = "ret_tok"
        /\ IF k \in DOMAIN tokenizers_cache
           THEN /\ frame' = [frame EXCEPT ![t] =
                       [f EXCEPT !.pc = "ret_model", !.tokenizer = tokenizers_cache[k]]]
                /\ UNCHANGED resolved
           ELSE /\ frame' = [frame EXCEPT ![t] = Raise(f, KeyError(k))]
                /\ Record(k, FALSE, NoHandle, NoHandle)
        /\ UNCHANGED <<models_cache, tokenizers_cache, nloads, loaded, probe>>

ReturnModel(t) ==
    LET f == frame[t]
        k == f.pair_key
    IN  /\ f.pc = "ret_model"
        /\ IF k \in DOMAIN models_cache
           THEN /\ frame' = [frame EXCEPT ![t] =
                       [f EXCEPT !.pc = IF f.op = "translate" THEN "units" ELSE "done",
                                 !.model = models_cache[k]]]
                /\ Record(k, TRUE, f.tokenizer, models_cache[k])
           ELSE /\ frame' = [frame EXCEPT ![t] = Raise(f, KeyError(k))]
                /\ Record(k, FALSE, NoHandle, NoHandle)
        /\ UNCHANGED <<models_cache, tokenizers_cache, nloads, loaded, probe>>

(***************************************************************************)
(* translate, lines 107-135, with the handles get_model_pair returned.     *)
(***************************************************************************)
TranslateUnits(t) ==
    LET f == frame[t]
        texts == f.req.text.units
    IN  /\ f.pc = "units"
        /\ \E outs \in [{i \in 1..Len(texts) : ~IsBlankUnit(texts[i])} -> Outcomes] :
              LET r == RunUnits(f.target_lang, texts, outs, 1, << >>, << >>, << >>)
                  g == [f EXCEPT !.results = r.results, !.calls = r.calls,
                                 !.logs = r.logs]
              IN  frame' = [frame EXCEPT ![t] =
                      IF r.exc.type # "none" THEN Raise(g, r.exc)
                      ELSE [g EXCEPT !.pc = "done",
                                     !.response = Ok(ShapeResponse(f.req.text, r.results))]]
        /\ UNCHANGED <<models_cache, tokenizers_cache, nloads, loaded, resolved, probe>>

\* the response is sent (or the direct call has returned); the worker is free again
Finish(t) ==
    /\ frame[t].pc = "done"
    /\ frame' = [frame EXCEPT ![t] = Idle]
    /\ UNCHANGED <<models_cache, tokenizers_cache, nloads, loaded, resolved, probe>>

Step(t) ==
    \/ GmpCheck(t)
    \/ LoadTokenizer(t)
    \/ LoadModel(t)
    \/ ReturnTokenizer(t)
    \/ ReturnModel(t)
    \/ TranslateUnits(t)
    \/ Finish(t)

\* the service: the workers handle requests concurrently
Next == \E t \in Threads : StartTranslate(t, ConcurrentBodies) \/ Step(t)

Spec == Init /\ [][Next]_vars

\* a sequential history of requests and of direct calls of get_model_pair: a
\* call starts only when every worker is idle, and since it makes no
\* difference which worker runs a call that has the process to itself, one
\* worker runs them all
AllIdle == \A t \in Threads : frame[t].pc = "idle"

SeqThreads == {"w1"}

SeqTranslate(t) == AllIdle /\ StartTranslate(t, Bodies)

SeqResolve(t) == AllIdle /\ StartResolve(t)

SeqNext == \E t \in SeqThreads : SeqTranslate(t) \/ SeqResolve(t) \/ Step(t)

SeqSpec == Init /\ [][SeqNext]_vars

(***************************************************************************)
(* Calls of the pure functions on their own: a label is normalized, and    *)
(* the result normalized again; a text is handed to the three probes.      *)
(***************************************************************************)
PureInit ==
    /\ probe \in {[NoProbe EXCEPT !.fn = "label", !.arg = x] : x \in Labels}
                  \cup {[NoProbe EXCEPT !.fn = "text", !.arg = x] : x \in ProbeTexts}
    /\ models_cache = EmptyDict
    /\ tokenizers_cache = EmptyDict
    /\ frame = [t \in Threads |-> Idle]
    /\ nloads = 0
    /\ loaded = {}
    /\ resolved = [k \in {} |-> [ok |-> FALSE, tokenizer |-> NoHandle, model |-> NoHandle]]

Normalize ==
    /\ probe.fn = "label"
    /\ probe' = [probe EXCEPT !.fn = "normalize_lang", !.code = normalize_lang(probe.arg)]
    /\ UNCHANGED <<models_cache, tokenizers_cache, frame, nloads, loaded, resolved>>

NormalizeAgain ==
    /\ probe.fn = "normalize_lang"
    /\ probe' = [probe EXCEPT !.fn = "normalize_lang twice",
                              !.twice = normalize_lang(probe.code)]
    /\ UNCHANGED <<models_cache, tokenizers_cache, frame, nloads, loaded, resolved>>

Classify ==
    /\ probe.fn = "text"
    /\ probe' = [probe EXCEPT !.fn = "contains",
                              !.arabic = contains_arabic(probe.arg),
                              !.french = contains_french(probe.arg),
                              !.english = contains_english(probe.arg)]
    /\ UNCHANGED <<models_cache, tokenizers_cache, frame, nloads, loaded, resolved>>

PureNext == Normalize \/ NormalizeAgain \/ Classify

PureSpec == PureInit /\ [][PureNext]_vars

(***************************************************************************)
(* Observations shared by the properties below.                            *)
(***************************************************************************)
Supported == {S_en, S_fr, S_ar}

\* get_model_pair was called and has returned or raised
Completed(f) == f.pair_key # << >> /\ f.pc \in {"units", "done"}

\* get_model_pair returned a pair of handles
Returned(f) == Completed(f) /\ f.model.kind # "none"

\* load attempts the call made
Loads(f) == IF f.attempt = 0 THEN 0 ELSE 1

\* the message of the error the call ended with, if any
Failure(f) == IF f.op = "translate" THEN f.response.detail ELSE f.raised.msg

Loading(f) == f.pc \in {"load_tok", "load_model"}

(***************************************************************************)
(* C1, as stated: in a sequential history the first resolution of a pair   *)
(* of MODEL_MAP makes exactly one load, and every later resolution of the  *)
(* pair makes none and returns the handles of the first.  It fails when    *)
(* the first resolution's load raises: the next one loads again.           *)
(***************************************************************************)
C1_FirstLoadsLaterNone ==
    \A t \in Threads :
        LET f == frame[t]
            k == f.pair_key
        IN  (Completed(f) /\ InModelMap(k)) =>
                /\ f.prior = "none" => Loads(f) = 1
                /\ f.prior # "none" =>
                      /\ Loads(f) = 0
                      /\ Returned(f)
                      /\ f.tokenizer = resolved[k].tokenizer
                      /\ f.model = resolved[k].model

(***************************************************************************)
(* C1, amended: in a sequential history every resolution of a pair of      *)
(* MODEL_MAP up to and including the first that succeeds makes exactly one *)
(* load, and every resolution after that one makes none and returns the    *)
(* tokenizer and model handles the first successful resolution returned.   *)
(***************************************************************************)
C1_CachedAfterFirstSuccess ==
    \A t \in Threads :
        LET f == frame[t]
            k == f.pair_key
        IN  (Completed(f) /\ InModelMap(k)) =>
                /\ f.prior # "ok" => Loads(f) = 1
                /\ f.prior = "ok" =>
                      /\ Loads(f) = 0
                      /\ Returned(f)
                      /\ f.tokenizer = resolved[k].tokenizer
                      /\ f.model = resolved[k].model

\* a pair loaded first is resolved again after another pair was loaded
C1_Witness ==
    \E t \in Threads :
        LET f == frame[t]
        IN  /\ Returned(f) /\ f.prior = "ok" /\ f.attempt = 0
            /\ f.model.id = 1
            /\ nloads = 2
            /\ \E k \in DOMAIN models_cache : k # f.pair_key /\ models_cache[k].id = 2

(***************************************************************************)
(* C2: among concurrent requests at most one load attempt per pair is in   *)
(* progress at a time, and the model of a pair is loaded at most once.     *)
(***************************************************************************)
C2_OneLoadPerPair ==
    /\ \A t, u \in Threads :
          (t # u /\ Loading(frame[t]) /\ Loading(frame[u])) =>
              frame[t].pair_key # frame[u].pair_key
    /\ \A g, h \in loaded : g.name = h.name => g = h

(***************************************************************************)
(* C3: no call observes a partly built cache entry.  A call that found the *)
(* pair in models_cache finds it in tokenizers_cache too, no subscript of  *)
(* the return statement fails, and what is returned is a tokenizer and a   *)
(* model of the pair.                                                      *)
(***************************************************************************)
C3_NoPartialEntry ==
    \A t \in Threads :
        LET f == frame[t]
            k == f.pair_key
        IN  /\ f.pc = "ret_tok" => k \in DOMAIN tokenizers_cache
            /\ f.pc = "ret_model" =>
                  /\ k \in DOMAIN models_cache
                  /\ f.tokenizer = TokenizerHandle(ModelName(k), f.tokenizer.id)
            /\ Completed(f) => Failure(f).error # "KeyError"
            /\ Returned(f) =>
                  /\ f.tokenizer = TokenizerHandle(ModelName(k), f.tokenizer.id)
                  /\ f.model = ModelHandle(ModelName(k), f.model.id)

\* a call hits the cache while another worker is still loading the same pair
C3_Witness ==
    \E t, u \in Threads :
        /\ t # u
        /\ frame[t].hit /\ frame[t].pc = "ret_model"
        /\ frame[u].pc = "load_model"
        /\ frame[u].pair_key = frame[t].pair_key

(***************************************************************************)
(* C4: after a load attempt for a pair fails, neither models_cache nor     *)
(* tokenizers_cache holds a handle for the pair, and the next resolution   *)
(* of the pair loads again from the start.                                 *)
(***************************************************************************)
C4_NothingCachedAfterFailure ==
    \A t \in Threads :
        LET f == frame[t]
            k == f.pair_key
        IN  /\ (Completed(f) /\ Failure(f).error = "Failed to load model") =>
                  /\ k \notin DOMAIN models_cache
                  /\ k \notin DOMAIN tokenizers_cache
            /\ (Completed(f) /\ f.prior = "failed") => (~f.hit /\ Loads(f) = 1)

(***************************************************************************)
(* Observations of a translate request.                                    *)
(***************************************************************************)
\* worker t has just taken a translate request
Takes(t) == frame[t].pc = "idle" /\ frame'[t].op = "translate"

\* the request of f is being handled or has been answered
Handling(f) == f.op = "translate" /\ f.pc # "idle"

Answered(f) == f.op = "translate" /\ f.pc = "done"

\* the unit is empty or consists of whitespace only
OnlyWhitespace(u) == \A j \in 1..Len(u) : IsSpace(u[j])

\* the units for which the tokenizer, generate and decode were called
CalledFor(f) == {f.calls[j][1] : j \in 1..Len(f.calls)}

\* the model was called for unit i and decoded to out
DecodedAs(f, i, out) == \E j \in 1..Len(f.calls) : f.calls[j] = <<i, out>>

NoResolution(f) == f.pair_key = << >> /\ f.attempt = 0 /\ ~f.hit /\ f.calls = << >>

(***************************************************************************)
(* C5: a request whose source label is "auto" (given, or the default of an *)
(* omitted source_lang) and whose target is supported is handled with      *)
(* source "en": validation does not reject it, and it goes on to the       *)
(* identity short-circuit (target en) or to the pair en-<target>.          *)
(***************************************************************************)
C5_AutoIsEnglish ==
    \A t \in Threads :
        LET f == frame[t]
            target == normalize_lang(f.req.target_lang)
        IN  (Handling(f) /\ f.req.source_lang = S_auto /\ target \in Supported) =>
                /\ f.source_lang = S_en
                /\ f.response.detail.error # "Invalid"
                /\ IF target = S_en
                   THEN Answered(f) /\ f.response = Ok(f.req.text)
                   ELSE f.pair_key = PairKey(S_en, target)

(***************************************************************************)
(* C6, as stated: source_lang "en" with target_lang "de" fails with a 400  *)
(* error whose message lists exactly the configured pair keys.             *)
(***************************************************************************)
C6_PairKeysListed ==
    \A t \in Threads :
        LET f == frame[t]
        IN  (Answered(f) /\ f.req.source_lang = S_en /\ f.req.target_lang = S_de) =>
                /\ f.response.status = 400
                /\ f.response.detail.keys =
                      <<PairKey(S_en, S_fr), PairKey(S_fr, S_en), PairKey(S_en, S_ar),
                        PairKey(S_ar, S_en), PairKey(S_fr, S_ar), PairKey(S_ar, S_fr)>>

(***************************************************************************)
(* C6, amended: source_lang "en" with target_lang "de" fails with a 400    *)
(* error whose message names the field target_lang, the code "de" and the  *)
(* allowed codes en, fr, ar; it lists no pair keys, and get_model_pair is  *)
(* not called.                                                             *)
(***************************************************************************)
C6_InvalidTarget ==
    \A t \in Threads :
        LET f == frame[t]
        IN  (Handling(f) /\ f.req.source_lang = S_en /\ f.req.target_lang = S_de) =>
                /\ Answered(f)
                /\ f.response.status = 400
                /\ ~f.response.wrapped
                /\ f.response.detail.error = "Invalid"
                /\ f.response.detail.field = "target_lang"
                /\ f.response.detail.value = S_de
                /\ f.response.detail.allowed = Supported
                /\ f.response.detail.keys = << >>
                /\ NoResolution(f)

C6_Witness ==
    \E t \in Threads :
        /\ Answered(frame[t])
        /\ frame[t].req.source_lang = S_en /\ frame[t].req.target_lang = S_de
        /\ frame[t].response.status = 400

(***************************************************************************)
(* C7: a request whose normalized source and target are the same supported *)
(* code is answered with exactly its input text, in the same shape and     *)
(* order; no model is loaded, no tokenize or generate call is made, and    *)
(* models_cache and tokenizers_cache are left as they were.                *)
(***************************************************************************)
C7_IdentityEcho ==
    [][\A t \in Threads :
          LET req == frame'[t].req
              source == normalize_lang(req.source_lang)
          IN  (Takes(t) /\ source \in Supported /\ source = normalize_lang(req.target_lang)) =>
                  /\ Answered(frame'[t])
                  /\ frame'[t].response = Ok(req.text)
                  /\ NoResolution(frame'[t])
                  /\ models_cache' = models_cache
                  /\ tokenizers_cache' = tokenizers_cache
                  /\ nloads' = nloads /\ loaded' = loaded]_vars

\* an array of two units echoed, source and target given by different labels
C7_Witness ==
    \E t \in Threads :
        LET f == frame[t]
        IN  /\ Answered(f)
            /\ f.req.source_lang # f.req.target_lang
            /\ normalize_lang(f.req.source_lang) = normalize_lang(f.req.target_lang)
            /\ f.req.text.kind = "list" /\ Len(f.req.text.units) = 2
            /\ f.response = Ok(f.req.text)
            /\ DOMAIN models_cache # {}

(***************************************************************************)
(* C8: a successful response has the shape of the input: a string for a    *)
(* string, and for an array of N units (N >= 0) an array of N elements     *)
(* whose element i is the outcome for unit i.                              *)
(***************************************************************************)
C8_ShapePreserved ==
    \A t \in Threads :
        LET f == frame[t]
            in == f.req.text
            out == f.response.body
        IN  (Answered(f) /\ f.response.status = 200) =>
                /\ out.kind = in.kind
                /\ Len(out.units) = Len(in.units)
                /\ in.kind = "str" => Len(out.units) = 1
                /\ \A i \in 1..Len(in.units) :
                      IF i \in CalledFor(f)
                      THEN DecodedAs(f, i, out.units[i])
                      ELSE out.units[i] = in.units[i]

\* an array of two units, both translated
C8_Witness ==
    \E t \in Threads :
        LET f == frame[t]
        IN  /\ Answered(f) /\ f.response.status = 200
            /\ f.req.text.kind = "list"
            /\ CalledFor(f) = {1, 2}
            /\ f.response.body.units[1] # f.response.body.units[2]

(***************************************************************************)
(* C9: in a successful request that is not an identity pair, every unit    *)
(* that is empty or only whitespace is at its place in the output          *)
(* unchanged, and no tokenize, generate or decode call is made for it;     *)
(* every other unit's output is what the model decoded for that unit.      *)
(***************************************************************************)
C9_BlankUnitsPassThrough ==
    \A t \in Threads :
        LET f == frame[t]
            in == f.req.text.units
            out == f.response.body.units
        IN  (Answered(f) /\ f.response.status = 200 /\ Returned(f)) =>
                \A i \in 1..Len(in) :
                    IF OnlyWhitespace(in[i])
                    THEN out[i] = in[i] /\ i \notin CalledFor(f)
                    ELSE DecodedAs(f, i, out[i])

\* a whitespace-only unit passed through next to a translated one
C9_Witness ==
    \E t \in Threads :
        LET f == frame[t]
        IN  /\ Answered(f) /\ f.response.status = 200 /\ Returned(f)
            /\ f.req.text = List(<< <<32, 32>>, <<104, 105>> >>)
            /\ f.response.body.units[1] = <<32, 32>>
            /\ CalledFor(f) = {2}

(***************************************************************************)
(* C10: when the normalized source or target is outside {en, fr, ar} the   *)
(* request fails with a 400 error naming the offending field (source_lang  *)
(* when the source is invalid, otherwise target_lang) and the allowed set, *)
(* and nothing else happens: no pair resolution, no load, no model call,   *)
(* both caches unchanged.                                                  *)
(***************************************************************************)
C10_InvalidLanguageRejected ==
    [][\A t \in Threads :
          LET g == frame'[t]
              source == normalize_lang(g.req.source_lang)
              target == normalize_lang(g.req.target_lang)
          IN  (Takes(t) /\ (source \notin Supported \/ target \notin Supported)) =>
                  /\ Answered(g)
                  /\ g.response.status = 400 /\ ~g.response.wrapped
                  /\ g.response.detail.error = "Invalid"
                  /\ g.response.detail.field =
                        IF source \notin Supported THEN "source_lang" ELSE "target_lang"
                  /\ g.response.detail.value =
                        IF source \notin Supported THEN source ELSE target
                  /\ g.response.detail.allowed = Supported
                  /\ NoResolution(g)
                  /\ models_cache' = models_cache
                  /\ tokenizers_cache' = tokenizers_cache
                  /\ nloads' = nloads /\ loaded' = loaded]_vars

\* both labels invalid: the source is the one reported
C10_Witness ==
    \E t \in Threads :
        LET f == frame[t]
        IN  /\ Answered(f)
            /\ normalize_lang(f.req.source_lang) \notin Supported
            /\ normalize_lang(f.req.target_lang) \notin Supported
            /\ f.response.detail.field = "source_lang"
            /\ DOMAIN models_cache # {}
(***************************************************************************)
(* C11.  normalize_lang is idempotent on every string, labels with inner   *)
(* whitespace and labels shorter than two characters included:             *)
(* normalizing the result of normalize_lang gives that result again.       *)
(***************************************************************************)
C11_Idempotent ==
    probe.fn = "normalize_lang twice" => probe.twice = probe.code

(***************************************************************************)
(* C12.  normalize_lang is total and equals the reference function: with   *)
(* t the lowercased, trimmed input, the result is the alias table's code   *)
(* when t is an alias (english, french, français, arabic, the Arabic-      *)
(* script alias), otherwise the first two characters of t when t has at    *)
(* least two characters, otherwise "en"; every string, the empty one       *)
(* included, has a result.                                                 *)
(***************************************************************************)
\* s without its leading and trailing whitespace: the slice of s that has no
\* whitespace at either end and only whitespace before and after it
RefTrimmed(s) ==
    IF OnlyWhitespace(s) THEN << >>
    ELSE LET i == CHOOSE x \in 1..Len(s) :
                      ~IsSpace(s[x]) /\ \A y \in 1..(x - 1) : IsSpace(s[y])
             j == CHOOSE x \in 1..Len(s) :
                      ~IsSpace(s[x]) /\ \A y \in (x + 1)..Len(s) : IsSpace(s[y])
         IN  [k \in 1..(j - i + 1) |-> s[i + k - 1]]

RefAliases ==
    {<<S_english, S_en>>, <<S_french, S_fr>>, <<S_francais, S_fr>>,
     <<S_arabic, S_ar>>, <<S_arabi, S_ar>>}

RefNormalize(x) ==
    LET t == RefTrimmed(Lower(x))
    IN  IF \E a \in RefAliases : a[1] = t
        THEN (CHOOSE a \in RefAliases : a[1] = t)[2]
        ELSE IF Len(t) >= 2 THEN <<t[1], t[2]>> ELSE <<101, 110>>

C12_EqualsReference ==
    probe.fn \in {"normalize_lang", "normalize_lang twice"} =>
        /\ probe.code = RefNormalize(probe.arg)
        /\ probe.code \in Seq(Nat) /\ Len(probe.code) = 2

\* the empty string has been normalized: the result is "en"
C12_Witness ==
    probe.fn = "normalize_lang" /\ probe.arg = << >> /\ probe.code = S_en

(***************************************************************************)
(* C13.  Every failure raised at inference time (by the tokenizer call,    *)
(* model.generate or tokenizer.decode), whatever the kind of the           *)
(* exception, is answered by translate with a 500 whose message wraps the  *)
(* cause; a 400 is answered only for an invalid language, an unsupported   *)
(* pair or a failed model load.                                            *)
(***************************************************************************)
\* the last call of the model for a unit of f raised
InferenceFailed(f) == f.calls # << >> /\ f.calls[Len(f.calls)][2] = << >>

C13_InferenceFailureIs500 ==
    \A t \in Threads :
        LET f == frame[t]
        IN  Answered(f) =>
                /\ InferenceFailed(f) =>
                        /\ f.response.status = 500
                        /\ f.response.wrapped
                        /\ f.response.detail.error = "library"
                /\ f.response.status = 400 =>
                        f.response.detail.error \in
                            {"Invalid", "Unsupported language pair", "Failed to load model"}

(***************************************************************************)
(* C14.  Cached handles are never evicted or reloaded: once a pair key is  *)
(* in models_cache with a model handle (and in tokenizers_cache with a     *)
(* tokenizer handle), every later state, under any interleaving of         *)
(* requests, still has the key with the very same handles.                 *)
(***************************************************************************)
C14_HandlesKept ==
    [][\A k \in DOMAIN models_cache :
          /\ k \in DOMAIN models_cache' /\ models_cache'[k] = models_cache[k]
          /\ k \in DOMAIN tokenizers_cache =>
                k \in DOMAIN tokenizers_cache' /\ tokenizers_cache'[k] = tokenizers_cache[k]]_vars

(***************************************************************************)
(* C15.  In every reachable state every key of models_cache and every key  *)
(* of tokenizers_cache is a key of MODEL_MAP; a resolution for a key that  *)
(* MODEL_MAP does not have fails with the unsupported-pair error, loads    *)
(* nothing and adds nothing to either cache.                               *)
(***************************************************************************)
C15_CacheKeysFromModelMap ==
    /\ \A k \in DOMAIN models_cache \cup DOMAIN tokenizers_cache :
            \E i \in 1..Len(MODEL_MAP) : MODEL_MAP[i][1] = k
    /\ \A t \in Threads :
            LET f == frame[t]
            IN  (f.pc = "done" /\ f.pair_key # << >> /\ ~InModelMap(f.pair_key)) =>
                    /\ Failure(f).error = "Unsupported language pair"
                    /\ Loads(f) = 0 /\ ~f.hit
                    /\ f.tokenizer = NoHandle /\ f.model = NoHandle

\* get_model_pair("en", "de") has failed while another pair is cached
C15_Witness ==
    \E t \in Threads :
        /\ frame[t].op = "get_model_pair" /\ frame[t].pc = "done"
        /\ frame[t].pair_key = PairKey(S_en, S_de)
        /\ frame[t].raised.msg.error = "Unsupported language pair"
        /\ models_cache # EmptyDict

(***************************************************************************)
(* C16.  contains_english(text) is true exactly when contains_arabic(text) *)
(* and contains_french(text) are both false and at least 80% of the        *)
(* characters of text are printable ASCII, that is when 10 * (number of    *)
(* printable ASCII characters) >= 8 * len(text); the boundary where the    *)
(* share is exactly 80% and the empty string are included.                 *)
(***************************************************************************)
\* the characters of s from " " to "~"
PrintableAscii(s) == Cardinality({i \in 1..Len(s) : s[i] \in 32..126})

C16_AtLeast80Percent ==
    probe.fn = "contains" =>
        (probe.english <=>
            /\ ~probe.arabic /\ ~probe.french
            /\ 10 * PrintableAscii(probe.arg) >= 8 * Len(probe.arg))

\* C16 as amended: contains_english(text) is true exactly when both other
\* probes are false and strictly more than 80% of the characters of text are
\* printable ASCII (10 * count > 8 * len); at exactly 80%, and for the
\* empty string, it is false.
C16_MoreThan80Percent ==
    probe.fn = "contains" =>
        /\ probe.english <=>
                /\ ~probe.arabic /\ ~probe.french
                /\ 10 * PrintableAscii(probe.arg) > 8 * Len(probe.arg)
        /\ 10 * PrintableAscii(probe.arg) = 8 * Len(probe.arg) => ~probe.english

\* a text of five characters, four of them printable ASCII and none Arabic
\* or French, has been probed: not English
C16_Witness ==
    /\ probe.fn = "contains"
    /\ Len(probe.arg) = 5 /\ PrintableAscii(probe.arg) = 4
    /\ ~probe.arabic /\ ~probe.french /\ ~probe.english

(***************************************************************************)
(* C17.  For every translated (non-blank) unit of a non-identity request   *)
(* the sanity log records follow the probes: target ar with the Arabic     *)
(* probe false gives a warning, and an error as well when the French probe *)
(* is true; target fr with the French and English probes both false gives  *)
(* a warning; every other case gives no warning and no error; and the      *)
(* unit's result in the response is the decoded output of the model,       *)
(* whatever the probes said.                                               *)
(***************************************************************************)
\* the levels of the records logged for unit i of f, in order
LevelsOf(f, i) ==
    LET mine == SelectSeq(f.logs, LAMBDA e : e[1] = i)
    IN  [j \in 1..Len(mine) |-> mine[j][2]]

\* the levels the sentence gives for a decoded result
ExpectedLevels(target, result) ==
    LET arabic == contains_arabic(result)
        french == contains_french(result)
        english == contains_english(result)
    IN  CASE target = <<97, 114>> /\ ~arabic /\ french -> <<"warning", "error">>
          [] target = <<97, 114>> /\ ~arabic /\ ~french -> <<"warning">>
          [] target = <<102, 114>> /\ ~french /\ ~english -> <<"warning">>
          [] OTHER -> << >>

C17_SanityLogsFollowProbes ==
    \A t \in Threads :
        LET f == frame[t]
        IN  Answered(f) =>
                /\ \A j \in 1..Len(f.calls) :
                        LET i == f.calls[j][1]
                            out == f.calls[j][2]
                        IN  /\ LevelsOf(f, i) =
                                   IF out = << >> THEN << >>
                                   ELSE ExpectedLevels(f.target_lang, out)
                            /\ (f.response.status = 200 /\ f.req.text.kind = "list") =>
                                   f.response.body.units[i] = out
                            /\ (f.response.status = 200 /\ f.req.text.kind = "str") =>
                                   f.response.body.units = <<out>>
                /\ \A j \in 1..Len(f.logs) : f.logs[j][1] \in CalledFor(f)

\* a request to Arabic whose first unit came back as "é" (a warning and an
\* error logged) and whose second unit came back in Arabic (nothing logged)
\* has been answered with both outputs
C17_Witness ==
    \E t \in Threads :
        LET f == frame[t]
        IN  /\ Answered(f) /\ f.response.status = 200
            /\ f.target_lang = S_ar
            /\ f.calls = << <<1, <<233>> >>, <<2, <<1587>> >> >>
            /\ f.logs = << <<1, "warning">>, <<1, "error">> >>
            /\ f.response.body = List(<< <<233>>, <<1587>> >>)

(***************************************************************************)
(* C18.  The unsupported-pair error of get_model_pair cannot be reached    *)
(* through translate: every request that passes validation and is not an   *)
(* identity pair has a pair key that MODEL_MAP has, because MODEL_MAP has  *)
(* all six ordered pairs of distinct codes from {en, fr, ar}.              *)
(***************************************************************************)
C18_UnsupportedPairUnreachable ==
    /\ \A a, b \in {<<101, 110>>, <<102, 114>>, <<97, 114>>} :
            a # b => \E i \in 1..Len(MODEL_MAP) : MODEL_MAP[i][1] = a \o <<45>> \o b
    /\ \A t \in Threads :
            LET f == frame[t]
            IN  Handling(f) =>
                    /\ f.response.detail.error # "Unsupported language pair"
                    /\ f.pair_key # << >> =>
                            /\ f.source_lang \in Supported /\ f.target_lang \in Supported
                            /\ f.source_lang # f.target_lang
                            /\ InModelMap(f.pair_key)

\* a request from en to ar has passed the registry test of get_model_pair
C18_Witness ==
    \E t \in Threads :
        /\ Handling(frame[t]) /\ frame[t].pc = "load_tok"
        /\ frame[t].pair_key = PairKey(S_en, S_ar)

(***************************************************************************)
(* C19.  Every (tokenizer, model) pair returned by get_model_pair consists *)
(* of two handles produced by one and the same load attempt, also when     *)
(* several requests resolve the same pair, not yet cached, at the same     *)
(* time, and when an earlier attempt for the pair failed after loading its *)
(* tokenizer.                                                              *)
(***************************************************************************)
C19_PairFromOneAttempt ==
    \A t \in Threads :
        LET f == frame[t]
        IN  Returned(f) =>
                /\ f.tokenizer.kind = "tokenizer" /\ f.model.kind = "model"
                /\ f.tokenizer.name = f.model.name
                /\ f.tokenizer.id = f.model.id

(***************************************************************************)
(* C20.  translate resolves the language pair before it looks at a text    *)
(* unit: whenever a valid non-identity request returns successfully its    *)
(* pair key is in models_cache afterwards, also when the text was an empty *)
(* array or had only empty or whitespace units; such a request loads the   *)
(* model on a cache miss, and fails with the load error if the load fails. *)
(***************************************************************************)
\* f handles a request with two distinct supported codes
ValidNonIdentity(f) ==
    /\ Handling(f)
    /\ normalize_lang(f.req.source_lang) \in Supported
    /\ normalize_lang(f.req.target_lang) \in Supported
    /\ normalize_lang(f.req.source_lang) # normalize_lang(f.req.target_lang)

\* the pair key of the request of f
RequestKey(f) ==
    normalize_lang(f.req.source_lang) \o <<45>> \o normalize_lang(f.req.target_lang)

\* the text of f has no unit that is translated
NothingToTranslate(f) ==
    \A i \in 1..Len(f.req.text.units) : OnlyWhitespace(f.req.text.units[i])

C20_PairResolvedBeforeUnits ==
    \A t \in Threads :
        LET f == frame[t]
        IN  ValidNonIdentity(f) =>
                /\ (f.pc = "units" \/ f.calls # << >>) => RequestKey(f) \in DOMAIN models_cache
                /\ (Answered(f) /\ f.response.status = 200) =>
                        /\ RequestKey(f) \in DOMAIN models_cache
                        /\ f.hit \/ f.attempt > 0
                        /\ f.prior # "ok" => f.attempt > 0
                /\ (Answered(f) /\ NothingToTranslate(f) /\ f.response.status # 200) =>
                        /\ f.attempt > 0
                        /\ f.response.status = 400
                        /\ f.response.detail.error = "Failed to load model"
                        /\ RequestKey(f) \notin DOMAIN models_cache

\* a request with an empty array has been answered after loading its model
C20_Witness ==
    \E t \in Threads :
        LET f == frame[t]
        IN  /\ ValidNonIdentity(f) /\ Answered(f)
            /\ f.req.text = List(<< >>)
            /\ f.response = Ok(List(<< >>))
            /\ f.attempt > 0
            /\ RequestKey(f) \in DOMAIN models_cache

====
